---- MODULE Spec2Model ----
(***************************************************************************)
(* Entity field type system of the object-mapping layer (the exported type *)
(* table: base, json, string, array, flag, uuid, puter-uuid, image-base64, *)
(* url, reference, datetime, puter-node).                                  *)
(*                                                                         *)
(* A JavaScript value is a tagged record; a string is a sequence of        *)
(* one-character strings so that value[0], slice and concatenation are     *)
(* computed as the code computes them.  An optional property is <<>> when  *)
(* absent and <<x>> when present.                                          *)
(***************************************************************************)
EXTENDS Integers, Sequences, FiniteSets, TLC

VARIABLES
    req,        \* the invocation of a type operation: operation, value, field, context
    outcome,    \* Pending before the operation ran, then how it ended and with what
    fsLog,      \* selectors passed to the filesystem service's node() and entries
                \* fetched from node handles, in call order
    aclLog,     \* calls made to the access-control service, in call order
    svcLog,     \* identifiers passed to an entity service's read(), in call order
    mwLog,      \* calls the abuse middleware made (the requester's origin test,
                \* the shadow-ban responder, next), in call order
    registry,   \* the registered type descriptors: name -> [from, ops]
    sealed,     \* whether the registry was sealed by a first resolve
    resolved,   \* the last resolve: the name asked for and its result
    entityOp,   \* one entity operation: direction, its fields, its state
    fstate,     \* per field of the entity operation: its state
    ran,        \* per field: the stages run so far, in order, with their outcomes
    applied     \* the fields whose value the operation has applied

typeVars == <<req, outcome, fsLog, aclLog, svcLog, mwLog>>
regVars == <<registry, sealed, resolved>>
pipeVars == <<entityOp, fstate, ran, applied>>

vars == <<req, outcome, fsLog, aclLog, svcLog, mwLog, registry, sealed, resolved,
          entityOp, fstate, ran, applied>>

-----------------------------------------------------------------------------
(* Bounds of the explored inputs *)

MaxStrLen == 3
MaxArrLen == 4
MaxChain == 4
NumFields == 2

-----------------------------------------------------------------------------
(* JavaScript values *)

None == <<>>
Some(x) == <<x>>
Opt(S) == {None} \cup {Some(x) : x \in S}
BoundedSeq(S, n) == UNION {[1..k -> S] : k \in 0..n}

Null == [t |-> "null"]
Undefined == [t |-> "undefined"]
Str(s) == [t |-> "string", s |-> s]
Num(n) == [t |-> "number", n |-> n]
Bool(b) == [t |-> "boolean", b |-> b]
Arr(a) == [t |-> "array", a |-> a]

\* An FSNodeContext: the handle of a filesystem node with its entry's path and id
FSNodeContext(path, mysql_id) == [t |-> "node", path |-> path, mysql_id |-> mysql_id]

TypeOf(v) ==
    CASE v.t = "undefined" -> "undefined"
      [] v.t = "string" -> "string"
      [] v.t = "number" -> "number"
      [] v.t = "boolean" -> "boolean"
      [] OTHER -> "object"

\* Errors
OMTypeError(expected, got) == [t |-> "OMTypeError", expected |-> expected, got |-> got]
PlainError(msg) == [t |-> "Error", msg |-> msg]
TypeErrorJS(msg) == [t |-> "TypeError", msg |-> msg]
APIError(code, fields) == [t |-> "APIError", code |-> code, fields |-> fields]
NoFields == [key |-> None, max_length |-> None, min_length |-> None,
             mod |-> None, expected |-> None]

\* Selectors of the filesystem service
NodeUIDSelector(uid) == [sel |-> "uid", uid |-> uid]
NodePathSelector(path) == [sel |-> "path", path |-> path]
NodeInternalIDSelector(store, id) == [sel |-> "internal-id", store |-> store, id |-> id]
NoSelector == [sel |-> "undefined"]

\* How an operation ends
Pending == [how |-> "pending"]
Return(v) == [how |-> "return", val |-> v]
Throw(e) == [how |-> "throw", val |-> e]
Result(out, fs, acl) == [out |-> out, fs |-> fs, acl |-> acl, svc |-> <<>>]
\* An operation that ended after the given reads of an entity service
ResultSvc(out, svc) == [out |-> out, fs |-> <<>>, acl |-> <<>>, svc |-> svc]

\* Calls to the access-control service
AclCheck(actor, node, permission) ==
    [fn |-> "check", actor |-> actor, node |-> node, permission |-> permission]
AclGetSafeError(actor, node, permission) ==
    [fn |-> "get_safe_acl_error", actor |-> actor, node |-> node, permission |-> permission]
\* The error the access-control service builds for a denial: a function of its arguments
SafeAclError(actor, node, permission) ==
    [t |-> "SafeAclError", actor |-> actor, node |-> node, permission |-> permission]

-----------------------------------------------------------------------------
(* Strings *)

Root == <<"/">>
Tilde == <<"~">>

StartsWith(s, p) == Len(s) >= Len(p) /\ SubSeq(s, 1, Len(p)) = p
\* value.slice(n)
Slice(s, n) == SubSeq(s, n + 1, Len(s))
\* value[0], undefined for the empty string
FirstChar(s) == IF Len(s) = 0 THEN None ELSE Some(s[1])

-----------------------------------------------------------------------------
(* puter-node: the filesystem-node type *)

\* ['/','.','~'].includes(value[0])
IsPathLike(value) == FirstChar(value) \in {Some("/"), Some("."), Some("~")}

\* const homedir = `/${user.username}`
HomeDir(user) == <<"/">> \o user.username


\* Variant of ExpandHome that keeps the leading '~' (no slice)
ExpandHomeKeepTilde(value, user) == HomeDir(user) \o value

\* value = homedir + value.slice(1)
ExpandHome(value, user) == HomeDir(user) \o Slice(value, 1)

\* The field_invalid error of a malformed path
PathInvalidError(name) ==
    APIError("field_invalid",
             [NoFields EXCEPT !.key = Some(name),
                              !.expected = Some("unix-style path or UUID")])

\* svc_fs.node(selector) followed by return node: env.node is the handle the
\* filesystem service answers with
LookupNode(selector, env) == Result(Return(env.node), <<selector>>, <<>>)


\* Variant of AdaptPath that asks the filesystem service before validating the path
AdaptPathLookupFirst(value, name, user, env) ==
    IF StartsWith(value, Tilde) /\ user = None
    THEN Result(Throw(PlainError("Cannot use ~ without a user")), <<>>, <<>>)
    ELSE LET path == IF StartsWith(value, Tilde) THEN ExpandHome(value, user[1])
                     ELSE value
         IN  IF ~ env.validPath
             THEN Result(Throw(PathInvalidError(name)), <<NodePathSelector(path)>>, <<>>)
             ELSE LookupNode(NodePathSelector(path), env)

\* The else branch of adapt: value starts with '/', '.' or '~'.
\* user is ctx.get('user'); env.validPath is is_valid_path's answer for the
\* (expanded) path.
AdaptPath(value, name, user, env) ==
    IF StartsWith(value, Tilde) /\ user = None
    THEN Result(Throw(PlainError("Cannot use ~ without a user")), <<>>, <<>>)
    ELSE LET path == IF StartsWith(value, Tilde) THEN ExpandHome(value, user[1])
                     ELSE value
         IN  IF ~ env.validPath
             THEN Result(Throw(PathInvalidError(name)), <<>>, <<>>)
             ELSE LookupNode(NodePathSelector(path), env)

\* The branch of adapt for a string that does not start with '/', '.' or '~':
\* env.validUuid is is_valid_uuid4's answer for the value; selector stays
\* undefined when it is false, and the lookup is made all the same.
AdaptUid(value, env) ==
    LookupNode(IF env.validUuid THEN NodeUIDSelector(value) ELSE NoSelector, env)

PuterNodeAdapt(value, name, user, env) ==
    IF value = Null THEN Result(Return(Null), <<>>, <<>>)
    ELSE IF value.t = "node" THEN Result(Return(value), <<>>, <<>>)
    ELSE IF TypeOf(value) # "string" THEN Result(Return(Undefined), <<>>, <<>>)
    ELSE IF ~ IsPathLike(value.s) THEN AdaptUid(value.s, env)
    ELSE AdaptPath(value.s, name, user, env)


\* Variant of FsPermission that ignores the configured permission
FsPermissionAlwaysSee(descriptor) == "see"

\* descriptor.fs_permission ?? 'see'
FsPermission(descriptor) ==
    IF descriptor.fs_permission = None THEN "see" ELSE descriptor.fs_permission[1]


\* Variant of IsRootNode that compares the path with the empty string
IsRootNodeEmptyPath(value) == value.path = <<>>

\* await value.get('path') === '/'
IsRootNode(value) == value.path = Root


\* Variant of Denial that throws the error
DenialThrown(err) == Throw(err)

\* return APIError.create('forbidden') / return await svc_acl.get_safe_acl_error(...):
\* how validate hands a denial to its caller
Denial(err) == Return(err)

\* env.check is the answer of svc_acl.check(actor, value, permission)
PuterNodeValidate(value, name, descriptor, actor, env) ==
    IF value = Null THEN Result(Return(Undefined), <<>>, <<>>)
    ELSE IF value.t # "node"
    THEN Result(Throw(TypeErrorJS("value.get is not a function")), <<>>, <<>>)
    ELSE LET permission == FsPermission(descriptor) IN
         IF IsRootNode(value)
         THEN Result(Denial(APIError("forbidden", NoFields)), <<>>, <<>>)
         ELSE IF ~ env.check
         THEN Result(Denial(SafeAclError(actor, value, permission)), <<>>,
                     <<AclCheck(actor, value, permission),
                       AclGetSafeError(actor, value, permission)>>)
         ELSE Result(Return(Undefined), <<>>, <<AclCheck(actor, value, permission)>>)


-----------------------------------------------------------------------------
(* string and array: length, regex and modulo constraints *)

\* A regex of the form /^[c1c2...]*$/ is the set of characters it allows
RegexMatch(s, regex) == \A i \in 1..Len(s) : s[i] \in regex


\* Variant of ExceedsMaxlen off by one (>= for >)
ExceedsMaxlenInclusive(len, descriptor) ==
    descriptor.maxlen # None /\ len >= descriptor.maxlen[1]

\* descriptor.hasOwnProperty('maxlen') && value.length > descriptor.maxlen
ExceedsMaxlen(len, descriptor) ==
    descriptor.maxlen # None /\ len > descriptor.maxlen[1]

\* APIError.create('field_too_long', null, { key: name, max_length: descriptor.maxlen })
FieldTooLong(name, descriptor) ==
    APIError("field_too_long",
             [NoFields EXCEPT !.key = Some(name), !.max_length = descriptor.maxlen])

\* descriptor.hasOwnProperty('minlen') && value.length > descriptor.minlen
MinlenViolated(len, descriptor) ==
    descriptor.minlen # None /\ len > descriptor.minlen[1]

\* APIError.create('field_too_short', null, { key: name, min_length: descriptor.maxlen })
FieldTooShort(name, descriptor) ==
    APIError("field_too_short",
             [NoFields EXCEPT !.key = Some(name), !.min_length = descriptor.maxlen])

StringValidate(value, name, descriptor) ==
    IF TypeOf(value) # "string"
    THEN Return(OMTypeError("string", TypeOf(value)))
    ELSE IF ExceedsMaxlen(Len(value.s), descriptor)
    THEN Throw(FieldTooLong(name, descriptor))
    ELSE IF MinlenViolated(Len(value.s), descriptor)
    THEN Throw(FieldTooShort(name, descriptor))
    ELSE IF descriptor.regex # None /\ ~ RegexMatch(value.s, descriptor.regex[1])
    THEN Return(PlainError("string does not match regex"))
    ELSE Return(Bool(TRUE))

ArrayValidate(value, name, descriptor) ==
    IF value.t # "array"
    THEN Return(OMTypeError("array", TypeOf(value)))
    ELSE IF ExceedsMaxlen(Len(value.a), descriptor)
    THEN Throw(FieldTooLong(name, descriptor))
    ELSE IF MinlenViolated(Len(value.a), descriptor)
    THEN Throw(FieldTooShort(name, descriptor))
    ELSE IF descriptor.mod # None /\ Len(value.a) % descriptor.mod[1] # 0
    THEN Throw(APIError("field_invalid",
                        [NoFields EXCEPT !.key = Some(name), !.mod = descriptor.mod]))
    ELSE Return(Bool(TRUE))

-----------------------------------------------------------------------------
(* string adapt and flag adapt *)

\* Variant of StringAdapt without the null case
StringAdaptNullThrows(value) ==
    IF value = Undefined THEN Return(Str(<<>>))
    ELSE IF TypeOf(value) # "string"
    THEN Throw(OMTypeError("string", TypeOf(value)))
    ELSE Return(value)

StringAdapt(value) ==
    IF value = Undefined THEN Return(Str(<<>>))
    ELSE IF value = Null THEN Return(Str(<<>>))
    ELSE IF TypeOf(value) # "string"
    THEN Throw(OMTypeError("string", TypeOf(value)))
    ELSE Return(value)

\* Whether a value is truthy: !! value
Truthy(value) ==
    CASE value.t \in {"undefined", "null"} -> FALSE
      [] value.t = "boolean" -> value.b
      [] value.t = "number" -> value.n # 0
      [] value.t = "string" -> value.s # <<>>
      [] OTHER -> TRUE

\* Variant of FlagAdapt that coerces by truthiness
FlagAdaptTruthy(value) == Return(Bool(Truthy(value)))

FlagAdapt(value) ==
    IF value = Undefined THEN Return(Bool(FALSE))
    ELSE LET v == IF value = Num(0) \/ value = Str(<<"0">>) THEN Bool(FALSE)
                  ELSE IF value = Num(1) \/ value = Str(<<"1">>) THEN Bool(TRUE)
                  ELSE value
         IN  IF TypeOf(v) # "boolean"
             THEN Throw(OMTypeError("boolean", TypeOf(v)))
             ELSE Return(v)

-----------------------------------------------------------------------------
(* reference: entity references *)

\* An Entity with the mysql_id of its private metadata (absent before it is stored)
Entity(mysql_id) == [t |-> "entity", private_meta |-> [mysql_id |-> mysql_id]]
\* A plain object with an id property (absent or a number)
PlainObject(id) == [t |-> "object", id |-> id]

\* A property holding a number, read from an object: undefined when absent
NumberOrUndefined(prop) == IF prop = None THEN Undefined ELSE Num(prop[1])

\* value.id of a value that is no Entity
IdProperty(value) ==
    IF value.t = "object" THEN NumberOrUndefined(value.id) ELSE Undefined

\* svc.read(value) on the service named by descriptor.service
ReadCall(service, value) == [service |-> service, id |-> value]

\* Variant of ReferenceSqlReference without the instanceof Entity case
ReferenceSqlReferenceIdOnly(value, descriptor) ==
    IF descriptor.service = None THEN Return(value)
    ELSE IF ~ Truthy(value) THEN Return(Null)
    ELSE Return(IdProperty(value))

ReferenceSqlReference(value, descriptor) ==
    IF descriptor.service = None THEN Return(value)
    ELSE IF ~ Truthy(value) THEN Return(Null)
    ELSE IF value.t = "entity"
    THEN Return(NumberOrUndefined(value.private_meta.mysql_id))
    ELSE Return(IdProperty(value))

\* Variant of ReferenceSqlDereference that hands the identifier back unread
ReferenceSqlDereferenceNoRead(value, descriptor, env) ==
    IF descriptor.service = None THEN ResultSvc(Return(value), <<>>)
    ELSE IF ~ Truthy(value) THEN ResultSvc(Return(Null), <<>>)
    ELSE ResultSvc(Return(value), <<>>)

\* env.entity is what the service's read answers
ReferenceSqlDereference(value, descriptor, env) ==
    IF descriptor.service = None THEN ResultSvc(Return(value), <<>>)
    ELSE IF ~ Truthy(value) THEN ResultSvc(Return(Null), <<>>)
    ELSE ResultSvc(Return(env.entity), <<ReadCall(descriptor.service[1], value)>>)

\* Variant of ReferenceAdapt without the instanceof Entity short-circuit
ReferenceAdaptAlwaysReads(value, descriptor, env) ==
    IF descriptor.service = None THEN ResultSvc(Return(value), <<>>)
    ELSE IF ~ Truthy(value) THEN ResultSvc(Return(Null), <<>>)
    ELSE ResultSvc(Return(env.entity), <<ReadCall(descriptor.service[1], value)>>)

ReferenceAdapt(value, descriptor, env) ==
    IF descriptor.service = None THEN ResultSvc(Return(value), <<>>)
    ELSE IF ~ Truthy(value) THEN ResultSvc(Return(Null), <<>>)
    ELSE IF value.t = "entity" THEN ResultSvc(Return(value), <<>>)
    ELSE ResultSvc(Return(env.entity), <<ReadCall(descriptor.service[1], value)>>)

\* Persisting a reference and loading it back: sql_dereference of what
\* sql_reference returned
ReferenceRoundTrip(value, descriptor, env) ==
    ReferenceSqlDereference(ReferenceSqlReference(value, descriptor).val, descriptor, env)

-----------------------------------------------------------------------------
(* puter-node: persisted form *)

\* await value.fetchEntry()
FetchEntry(node) == [sel |-> "fetchEntry", node |-> node]

\* Variant of PuterNodeSqlReference without the null case
PuterNodeSqlReferenceNoNull(value) ==
    IF value.t # "node"
    THEN Result(Throw(PlainError("Cannot reference non-FSNodeContext")), <<>>, <<>>)
    ELSE Result(Return(IF value.mysql_id = None THEN Null ELSE Num(value.mysql_id[1])),
                <<FetchEntry(value)>>, <<>>)

\* value.mysql_id is the id the node holds once its entry is fetched
PuterNodeSqlReference(value) ==
    IF value = Null THEN Result(Return(Null), <<>>, <<>>)
    ELSE IF value.t # "node"
    THEN Result(Throw(PlainError("Cannot reference non-FSNodeContext")), <<>>, <<>>)
    ELSE Result(Return(IF value.mysql_id = None THEN Null ELSE Num(value.mysql_id[1])),
                <<FetchEntry(value)>>, <<>>)

\* Variant of PuterNodeSqlDereference without the number test
PuterNodeSqlDereferenceUntyped(value, env) ==
    IF value = Null THEN Result(Return(Null), <<>>, <<>>)
    ELSE LookupNode(NodeInternalIDSelector("mysql", value), env)

PuterNodeSqlDereference(value, env) ==
    IF value = Null THEN Result(Return(Null), <<>>, <<>>)
    ELSE IF TypeOf(value) # "number"
    THEN Result(Throw(PlainError("Cannot dereference non-number")), <<>>, <<>>)
    ELSE LookupNode(NodeInternalIDSelector("mysql", value), env)

-----------------------------------------------------------------------------
(* The exported type table and the resolution of "from" chains *)

TypeNames ==
    {"base", "json", "string", "array", "flag", "uuid", "puter-uuid",
     "image-base64", "url", "reference", "datetime", "puter-node"}

OpNames == {"is_set", "adapt", "validate", "sql_reference", "sql_dereference", "factory"}

\* Variant of TypeFrom in which every type but base names base as its parent
TypeFromAllBase(name) == IF name = "base" THEN None ELSE Some("base")

\* Variant of TypeFrom in which url names a parent that is not in the table
TypeFromUrlTypo(name) ==
    CASE name \in {"json", "string", "array", "reference", "datetime"} -> Some("base")
      [] name \in {"uuid", "puter-uuid", "image-base64"} -> Some("string")
      [] name = "url" -> Some("strnig")
      [] OTHER -> None

\* Variant of TypeFrom in which string names puter-node as its parent
TypeFromStringIsNode(name) ==
    CASE name \in {"json", "array", "reference", "datetime"} -> Some("base")
      [] name = "string" -> Some("puter-node")
      [] name \in {"uuid", "puter-uuid", "image-base64", "url"} -> Some("string")
      [] OTHER -> None

\* The from: property of each exported type (absent for base, flag and puter-node)
TypeFrom(name) ==
    CASE name \in {"json", "string", "array", "reference", "datetime"} -> Some("base")
      [] name \in {"uuid", "puter-uuid", "image-base64", "url"} -> Some("string")
      [] OTHER -> None

\* The operations each exported type defines itself
TypeOps(name) ==
    CASE name = "base" -> {"is_set"}
      [] name = "string" -> {"adapt", "validate"}
      [] name = "array" -> {"validate"}
      [] name = "flag" -> {"adapt"}
      [] name = "uuid" -> {"validate"}
      [] name = "puter-uuid" -> {"validate", "factory"}
      [] name = "image-base64" -> {"validate"}
      [] name = "url" -> {"validate"}
      [] name = "reference" -> {"sql_reference", "sql_dereference", "adapt"}
      [] name = "puter-node" ->
            {"sql_reference", "is_set", "sql_dereference", "adapt", "validate"}
      [] OTHER -> {}

\* module.exports: the type table as loaded
Declared == [n \in TypeNames |-> [from |-> TypeFrom(n), ops |-> TypeOps(n)]]

ConfigurationError(why) == [ok |-> FALSE, error |-> "ConfigurationError", why |-> why]

\* The parent chain of a type, the type itself first, or a ConfigurationError
RECURSIVE ParentChain(_, _, _)
ParentChain(reg, name, seen) ==
    IF name \notin DOMAIN reg THEN ConfigurationError("unregistered parent")
    ELSE IF name \in seen THEN ConfigurationError("cycle")
    ELSE IF reg[name].from = None THEN [ok |-> TRUE, chain |-> <<name>>]
    ELSE LET rest == ParentChain(reg, reg[name].from[1], seen \cup {name})
         IN  IF rest.ok THEN [ok |-> TRUE, chain |-> <<name>> \o rest.chain]
             ELSE rest

\* Merging root-first with the child overriding the parent: each operation is
\* taken from the first type of the chain that defines it
MergeOps(reg, chain) ==
    [op \in OpNames |->
        LET definers == {i \in 1..Len(chain) : op \in reg[chain[i]].ops}
        IN  IF definers = {} THEN None
            ELSE Some(chain[CHOOSE i \in definers : \A j \in definers : i <= j])]

\* resolve(name): the effective operation set, each operation with the type
\* whose definition is used
Resolve(reg, name) ==
    LET c == ParentChain(reg, name, {})
    IN  IF c.ok THEN [ok |-> TRUE, chain |-> c.chain, ops |-> MergeOps(reg, c.chain)]
        ELSE c

\* Types registered at startup besides the exported table
ExtraNames == {"x-a", "x-b"}
ExtraParents == {"base", "uuid", "x-a", "x-b", "x-ghost"}
ExtraDescriptors == [from : Opt(ExtraParents), ops : {{}, {"adapt"}}]

\* The state after the type table is loaded, no type operation under way
RegistryStart ==
    /\ registry = Declared
    /\ sealed = FALSE
    /\ resolved = None
    /\ req = None
    /\ outcome = Pending
    /\ fsLog = <<>>
    /\ aclLog = <<>>
    /\ svcLog = <<>>
    /\ mwLog = <<>>
    /\ entityOp = None
    /\ fstate = <<>>
    /\ ran = <<>>
    /\ applied = {}

\* register(name, descriptor): startup only, refused once the registry is sealed
Register(name, descriptor) ==
    /\ ~ sealed
    /\ name \notin DOMAIN registry
    /\ registry' = [n \in DOMAIN registry \cup {name} |->
                      IF n = name THEN descriptor ELSE registry[n]]
    /\ UNCHANGED <<sealed, resolved>>

\* resolve(name): seals the registry and yields the effective operation set
ResolveCall(name) ==
    /\ name \in DOMAIN registry
    /\ resolved' = Some([name |-> name, result |-> Resolve(registry, name)])
    /\ sealed' = TRUE
    /\ UNCHANGED registry

RegisterStep ==
    /\ \E name \in ExtraNames, d \in ExtraDescriptors : Register(name, d)
    /\ UNCHANGED <<typeVars, pipeVars>>

ResolveStep ==
    /\ \E name \in TypeNames \cup ExtraNames : ResolveCall(name)
    /\ UNCHANGED <<typeVars, pipeVars>>

RegistryNext == RegisterStep \/ ResolveStep

-----------------------------------------------------------------------------
(* The field pipeline: the stages of one entity operation over its fields *)

Fields == 1..NumFields
Directions == {"persist", "load"}
\* A field came with a value or not, and (when not) may need a generated one
FieldInputs == {[supplied |-> TRUE, generate |-> FALSE],
                [supplied |-> FALSE, generate |-> TRUE],
                [supplied |-> FALSE, generate |-> FALSE]}

Stage(name, result) == [stage |-> name, result |-> result]
StageNames(run) == [i \in 1..Len(run) |-> run[i].stage]
LastStage(run) == run[Len(run)].stage

\* The last stage of a direction
StoreStage(direction) ==
    IF direction = "persist" THEN "sql_reference" ELSE "sql_dereference"

\* Variant of StageAfter that validates before adapting
StageAfterValidateFirst(run, input, direction) ==
    IF run = <<>> THEN "is_set"
    ELSE IF LastStage(run) = "is_set" /\ ~ input.supplied /\ input.generate
    THEN "factory"
    ELSE IF LastStage(run) \in {"is_set", "factory"} THEN "validate"
    ELSE IF LastStage(run) = "validate" THEN "adapt"
    ELSE IF LastStage(run) = "adapt" THEN StoreStage(direction)
    ELSE "none"

\* The stage a field runs next: is_set, factory when no value was supplied and
\* one must be generated, adapt, validate, then the direction's store stage
StageAfter(run, input, direction) ==
    IF run = <<>> THEN "is_set"
    ELSE IF LastStage(run) = "is_set" /\ ~ input.supplied /\ input.generate
    THEN "factory"
    ELSE IF LastStage(run) \in {"is_set", "factory"} THEN "adapt"
    ELSE IF LastStage(run) = "adapt" THEN "validate"
    ELSE IF LastStage(run) = "validate" THEN StoreStage(direction)
    ELSE "none"

\* The state a field is in once a stage completed
StateAfter(stage, state) ==
    CASE stage = "adapt" -> "Adapted"
      [] stage = "validate" -> "Validated"
      [] stage = "sql_reference" -> "Persisted"
      [] stage = "sql_dereference" -> "Loaded"
      [] OTHER -> state

\* Variant of OperationAfterThrow in which a throw fails the field alone
OperationAfterThrowFieldOnly(state) == state

\* The state of the owning operation after a stage of one of its fields threw
OperationAfterThrow(state) == "Failed"

PipelineStart ==
    /\ entityOp \in {Some([direction |-> d, fields |-> fs, state |-> "Running"]) :
                        d \in Directions, fs \in [Fields -> FieldInputs]}
    /\ fstate = [f \in Fields |-> "Unresolved"]
    /\ ran = [f \in Fields |-> <<>>]
    /\ applied = {}
    /\ req = None
    /\ outcome = Pending
    /\ fsLog = <<>>
    /\ aclLog = <<>>
    /\ svcLog = <<>>
    /\ mwLog = <<>>
    /\ registry = Declared
    /\ sealed = FALSE
    /\ resolved = None

\* A stage of field f completes
StageCompletes(f) ==
    LET stage == StageAfter(ran[f], entityOp[1].fields[f], entityOp[1].direction)
    IN  /\ entityOp[1].state = "Running"
        /\ fstate[f] # "Failed"
        /\ stage # "none"
        /\ ran' = [ran EXCEPT ![f] = Append(@, Stage(stage, "ok"))]
        /\ fstate' = [fstate EXCEPT ![f] = StateAfter(stage, @)]
        /\ UNCHANGED <<entityOp, applied>>

\* A stage of field f throws (is_set and factory do not fail)
StageThrows(f) ==
    LET stage == StageAfter(ran[f], entityOp[1].fields[f], entityOp[1].direction)
    IN  /\ entityOp[1].state = "Running"
        /\ fstate[f] # "Failed"
        /\ stage \in {"adapt", "validate", "sql_reference", "sql_dereference"}
        /\ ran' = [ran EXCEPT ![f] = Append(@, Stage(stage, "throw"))]
        /\ fstate' = [fstate EXCEPT ![f] = "Failed"]
        /\ entityOp' = Some([entityOp[1] EXCEPT !.state = OperationAfterThrow(@)])
        /\ UNCHANGED applied

\* Every field reached its last stage: the operation applies the values
Commit ==
    /\ entityOp[1].state = "Running"
    /\ \A f \in Fields : fstate[f] \in {"Persisted", "Loaded"}
    /\ applied' = Fields
    /\ entityOp' = Some([entityOp[1] EXCEPT !.state = "Done"])
    /\ UNCHANGED <<fstate, ran>>

StageCompletesStep ==
    /\ \E f \in Fields : StageCompletes(f)
    /\ UNCHANGED <<typeVars, regVars>>

StageThrowsStep ==
    /\ \E f \in Fields : StageThrows(f)
    /\ UNCHANGED <<typeVars, regVars>>

CommitStep ==
    /\ Commit
    /\ UNCHANGED <<typeVars, regVars>>

PipelineNext == StageCompletesStep \/ StageThrowsStep \/ CommitStep

\* One entity operation run through the field pipeline
SpecPipeline == PipelineStart /\ [][PipelineNext]_vars

-----------------------------------------------------------------------------
(* is_set: whether a field counts as present *)

\* base.is_set: !! value
BaseIsSet(value) == Return(Bool(Truthy(value)))

\* Variant of PuterNodeIsSet without the null case
PuterNodeIsSetTruthy(value) == Return(Bool(Truthy(value)))

\* puter-node.is_set: ( !! value ) || value === null
PuterNodeIsSet(value) == Return(Bool(Truthy(value) \/ value = Null))

\* is_set of a type of the exported table: the definition the type resolves
\* to, its own or the nearest ancestor's; a TypeError when there is none
TypeIsSet(type, value) ==
    LET definer == Resolve(Declared, type).ops["is_set"]
    IN  CASE definer = Some("base") -> BaseIsSet(value)
          [] definer = Some("puter-node") -> PuterNodeIsSet(value)
          [] OTHER -> Throw(TypeErrorJS("is_set is not a function"))

-----------------------------------------------------------------------------
(* puter-uuid: prefixed identifiers *)

HexChars ==
    {"0", "1", "2", "3", "4", "5", "6", "7", "8", "9",
     "a", "b", "c", "d", "e", "f", "A", "B", "C", "D", "E", "F"}
UuidDashes == {9, 14, 19, 24}

\* is_valid_uuid(uuid): five groups of 8, 4, 4, 4 and 12 hexadecimal digits
\* joined by dashes, of any version
IsValidUuid(s) ==
    /\ Len(s) = 36
    /\ \A i \in 1..Len(s) : IF i \in UuidDashes THEN s[i] = "-" ELSE s[i] \in HexChars

\* A version 4 identifier: version digit 4, variant digit 8, 9, a or b
IsValidUuid4(s) ==
    /\ IsValidUuid(s)
    /\ s[15] = "4"
    /\ s[20] \in {"8", "9", "a", "b", "A", "B"}

\* descriptor.prefix + '-'; an absent prefix concatenates as "undefined"
PuterUuidPrefix(descriptor) ==
    (IF descriptor.prefix = None THEN <<"u", "n", "d", "e", "f", "i", "n", "e", "d">>
     ELSE descriptor.prefix[1]) \o <<"-">>

\* puter-uuid.validate: a value that is no string has no startsWith
PuterUuidValidate(value, descriptor) ==
    LET prefix == PuterUuidPrefix(descriptor)
    IN  IF value.t # "string"
        THEN Throw(TypeErrorJS("value.startsWith is not a function"))
        ELSE IF ~ StartsWith(value.s, prefix)
        THEN Return(PlainError("UUID does not start with prefix"))
        ELSE Return(Bool(IsValidUuid(Slice(value.s, Len(prefix)))))

\* Variant of PuterUuidFactory that joins prefix and identifier without the dash
PuterUuidFactoryNoDash(descriptor, env) ==
    Return(Str(SubSeq(PuterUuidPrefix(descriptor), 1, Len(PuterUuidPrefix(descriptor)) - 1)
               \o env.uuid))

\* puter-uuid.factory: env.uuid is what require('uuid').v4() generates
PuterUuidFactory(descriptor, env) == Return(Str(PuterUuidPrefix(descriptor) \o env.uuid))

\* A generated value handed to validate under the same descriptor
PuterUuidFactoryValidate(descriptor, env) ==
    PuterUuidValidate(PuterUuidFactory(descriptor, env).val, descriptor)

-----------------------------------------------------------------------------
(* image-base64: data URIs of images *)

\* 'data:image/'
DataImagePrefix == <<"d", "a", "t", "a", ":", "i", "m", "a", "g", "e", "/">>

\* value.includes(char)
Includes(s, char) == \E i \in 1..Len(s) : s[i] = char

\* The double quote and the backtick, written by their code points
DoubleQuote == "U+0022"
Backtick == "U+0060"

\* Variant of XssChars without the backtick
XssCharsNoBacktick == {"<", ">", "&", DoubleQuote, "'"}

\* const chars = ['<', '>', '&', '"', "'", '`']
XssChars == {"<", ">", "&", DoubleQuote, "'", Backtick}

\* image-base64.validate: no return statement on the valid path, so undefined
ImageBase64Validate(value) ==
    IF value.t # "string"
    THEN Throw(TypeErrorJS("value.startsWith is not a function"))
    ELSE IF ~ StartsWith(value.s, DataImagePrefix)
    THEN Return(PlainError("image must be base64 encoded"))
    ELSE IF \E char \in XssChars : Includes(value.s, char)
    THEN Return(PlainError("icon is not an image"))
    ELSE Return(Undefined)

-----------------------------------------------------------------------------
(* Persist and load of a field: the operations its type resolves to *)

\* The type whose definition of op a type uses, None when no type of its
\* chain defines op
Definer(type, op) == Resolve(Declared, type).ops[op]

\* adapt of a type of the exported table; a type without adapt leaves the
\* value as it is
TypeAdapt(type, value, descriptor, env) ==
    LET definer == Definer(type, "adapt")
    IN  CASE definer = Some("string") -> StringAdapt(value)
          [] definer = Some("flag") -> FlagAdapt(value)
          [] definer = Some("reference") -> ReferenceAdapt(value, descriptor, env).out
          [] OTHER -> Return(value)

\* sql_reference of a type; a type without it persists the value as it is
TypeSqlReference(type, value, descriptor) ==
    LET definer == Definer(type, "sql_reference")
    IN  CASE definer = Some("reference") -> ReferenceSqlReference(value, descriptor)
          [] definer = Some("puter-node") -> PuterNodeSqlReference(value).out
          [] OTHER -> Return(value)

\* sql_dereference of a type; a type without it loads the value as it is
TypeSqlDereference(type, value, descriptor, env) ==
    LET definer == Definer(type, "sql_dereference")
    IN  CASE definer = Some("reference") ->
                ReferenceSqlDereference(value, descriptor, env).out
          [] definer = Some("puter-node") -> PuterNodeSqlDereference(value, env).out
          [] OTHER -> Return(value)

\* adapt, then sql_reference, then sql_dereference; the first that throws ends it
TypeRoundTrip(type, value, descriptor, env) ==
    LET adapted == TypeAdapt(type, value, descriptor, env)
    IN  IF adapted.how # "return" THEN adapted
        ELSE LET stored == TypeSqlReference(type, adapted.val, descriptor)
             IN  IF stored.how # "return" THEN stored
                 ELSE TypeSqlDereference(type, stored.val, descriptor, env)

-----------------------------------------------------------------------------
(* The abuse middleware *)

\* APIError.create('forbidden')
Forbidden == APIError("forbidden", NoFields)

\* Variant of Abuse that calls the shadow-ban responder without returning
AbuseNoReturn(options, requester) ==
    LET bot == Truthy(options.no_bots) /\ Truthy(requester.is_bot)
        banned == IF bot /\ options.shadow_ban_responder # None
                  THEN <<"shadow_ban_responder">> ELSE <<>>
    IN  IF bot /\ options.shadow_ban_responder = None
        THEN [out |-> Throw(Forbidden), calls |-> <<>>]
        ELSE IF Truthy(options.puter_origin)
        THEN IF ~ requester.is_puter_origin
             THEN [out |-> Throw(Forbidden), calls |-> banned \o <<"is_puter_origin">>]
             ELSE [out |-> Return(Undefined),
                   calls |-> banned \o <<"is_puter_origin", "next">>]
        ELSE [out |-> Return(Undefined), calls |-> banned \o <<"next">>]

\* abuse(options)(req, res, next): options.shadow_ban_responder holds what the
\* configured responder returns, requester.is_puter_origin what the
\* requester's origin test answers
Abuse(options, requester) ==
    IF Truthy(options.no_bots) /\ Truthy(requester.is_bot)
    THEN IF options.shadow_ban_responder # None
         THEN [out |-> Return(options.shadow_ban_responder[1]),
               calls |-> <<"shadow_ban_responder">>]
         ELSE [out |-> Throw(Forbidden), calls |-> <<>>]
    ELSE IF Truthy(options.puter_origin)
    THEN IF ~ requester.is_puter_origin
         THEN [out |-> Throw(Forbidden), calls |-> <<"is_puter_origin">>]
         ELSE [out |-> Return(Undefined), calls |-> <<"is_puter_origin", "next">>]
    ELSE [out |-> Return(Undefined), calls |-> <<"next">>]

-----------------------------------------------------------------------------
(* Invocations explored *)

FieldNames == {"icon", "dir"}
PathChars == {"/", ".", "~", "d"}
TextChars == {"a", "<"}
Alice == [username |-> <<"a", "l", "i", "c", "e">>]
Bob == [username |-> <<"b">>]
HomeDocs == <<"~", "/", "d", "o", "c", "s">>
Actors == {"actor-alice", "actor-bob"}
Nodes == {FSNodeContext(p, m) : p \in {Root, <<"/", "a">>}, m \in {None, Some(7)}}
LookupAnswers == {FSNodeContext(<<"/", "a">>, Some(7)), FSNodeContext(Root, None)}

NoDescriptor == [maxlen |-> None, minlen |-> None, mod |-> None, regex |-> None,
                 fs_permission |-> None, prefix |-> None, service |-> None]
NoEnv == [validPath |-> FALSE, validUuid |-> FALSE, check |-> FALSE, node |-> Null,
          entity |-> Null]

Request(op, value, name, descriptor, user, actor, env) ==
    [op |-> op, value |-> value, name |-> name, descriptor |-> descriptor,
     user |-> user, actor |-> actor, env |-> env]

NodeAdaptStrings == {Str(s) : s \in BoundedSeq(PathChars, MaxStrLen) \cup {HomeDocs}}
NodeAdaptRequests ==
    {Request("puter-node.adapt", v, n, NoDescriptor, u, "actor-alice",
             [NoEnv EXCEPT !.validPath = vp, !.validUuid = vu, !.node = a]) :
        v \in NodeAdaptStrings, n \in FieldNames, u \in Opt({Alice, Bob}),
        vp \in BOOLEAN, vu \in BOOLEAN, a \in LookupAnswers}
    \cup
    {Request("puter-node.adapt", v, n, NoDescriptor, u, "actor-alice", NoEnv) :
        v \in {Null, Undefined, Num(7), Bool(TRUE)} \cup Nodes,
        n \in FieldNames, u \in Opt({Alice})}

NodeValidateRequests ==
    {Request("puter-node.validate", v, n, [NoDescriptor EXCEPT !.fs_permission = p],
             None, a, [NoEnv EXCEPT !.check = c]) :
        v \in {Null, Undefined, Str(Root)} \cup Nodes, n \in FieldNames,
        p \in Opt({"write", "read"}), a \in Actors, c \in BOOLEAN}

TextValues == {Str(s) : s \in BoundedSeq(TextChars, MaxStrLen)}
ArrayValues == {Arr([i \in 1..k |-> i]) : k \in 0..MaxArrLen}

StringValidateRequests ==
    {Request("string.validate", v, n,
             [NoDescriptor EXCEPT !.maxlen = mx, !.minlen = mn, !.regex = re],
             None, "actor-alice", NoEnv) :
        v \in TextValues \cup {Undefined, Null, Num(7), Arr(<<1, 2, 3, 4>>)},
        n \in FieldNames, mx \in Opt(0..MaxStrLen), mn \in Opt(0..MaxStrLen),
        re \in Opt({{"a"}})}

ArrayValidateRequests ==
    {Request("array.validate", v, n,
             [NoDescriptor EXCEPT !.maxlen = mx, !.minlen = mn, !.mod = md],
             None, "actor-alice", NoEnv) :
        v \in ArrayValues \cup {Undefined, Null, Str(<<"a", "a", "a", "a">>)},
        n \in FieldNames, mx \in Opt(0..MaxArrLen), mn \in Opt(0..MaxArrLen),
        md \in Opt({1, 2, 3})}

PlainRequest(op, value) ==
    Request(op, value, "icon", NoDescriptor, None, "actor-alice", NoEnv)

StringAdaptRequests ==
    {PlainRequest("string.adapt", v) :
        v \in TextValues \cup {Undefined, Null, Num(0), Num(42), Bool(FALSE),
                               Arr(<<>>), FSNodeContext(Root, None)}}

FlagAdaptRequests ==
    {PlainRequest("flag.adapt", v) :
        v \in {Undefined, Null, Num(0), Num(1), Num(2), Bool(TRUE), Bool(FALSE),
               Str(<<"0">>), Str(<<"1">>), Str(<<"y", "e", "s">>), Str(<<>>),
               Str(<<"t", "r", "u", "e">>), Arr(<<>>), Arr(<<1>>)}}

Entities == {Entity(id) : id \in Opt({1, 7})}
ReferenceValues ==
    Entities \cup {PlainObject(id) : id \in Opt({7})}
        \cup {Null, Undefined, Num(0), Num(7), Str(<<>>), Str(<<"a">>), Bool(FALSE)}
ReadAnswers == {Entity(Some(7)), Null}

ReferenceRequests ==
    {Request(op, v, "icon", [NoDescriptor EXCEPT !.service = svc], None,
             "actor-alice", [NoEnv EXCEPT !.entity = e]) :
        op \in {"reference.adapt", "reference.sql_reference",
                "reference.sql_dereference", "reference.roundtrip"},
        v \in ReferenceValues, svc \in Opt({"es:app", "es:user"}), e \in ReadAnswers}

NodeStoreRequests ==
    {Request("puter-node.sql_reference", v, "icon", NoDescriptor, None,
             "actor-alice", NoEnv) :
        v \in Nodes \cup {Null, Undefined, Num(7), Str(Root), Entity(Some(7))}}
    \cup
    {Request("puter-node.sql_dereference", v, "icon", NoDescriptor, None,
             "actor-alice", [NoEnv EXCEPT !.node = a]) :
        v \in {Null, Undefined, Num(0), Num(7), Str(<<"7">>), Bool(TRUE)}
                \cup LookupAnswers,
        a \in LookupAnswers}

IsSetValues ==
    {Null, Undefined, Num(0), Num(7), Bool(FALSE), Bool(TRUE), Str(<<>>),
     Str(<<"a">>), Arr(<<>>), Entity(Some(7))} \cup Nodes

IsSetRequests ==
    {[op |-> "is_set", type |-> t, value |-> v] : t \in TypeNames, v \in IsSetValues}

\* Identifiers: n copies of a digit, and the five dashed groups
Digits(n, c) == [i \in 1..n |-> c]
UuidOf(c, version, variant) ==
    Digits(8, c) \o <<"-">> \o Digits(4, c) \o <<"-">> \o <<version>> \o Digits(3, c)
        \o <<"-">> \o <<variant>> \o Digits(3, c) \o <<"-">> \o Digits(12, c)
\* What the generator can give: version 4 identifiers
GeneratedUuids == {UuidOf(c, "4", v) : c \in {"0", "f"}, v \in {"8", "b"}}
OtherUuids == {UuidOf("0", "1", "8"), UuidOf("C", "4", "c")}
NotUuids ==
    {Digits(36, "0"), UuidOf("g", "4", "8"), SubSeq(UuidOf("0", "4", "8"), 1, 35),
     UuidOf("0", "4", "8") \o <<"0">>}
UuidPrefixes == {<<"a", "p", "p">>, <<"a">>}
UuidChars == {"a", "p", "-"}

PuterUuidValues ==
    {Str(p \o d \o u) : p \in UuidPrefixes \cup {<<>>}, d \in {<<"-">>, <<>>, <<"_">>},
                        u \in GeneratedUuids \cup OtherUuids \cup NotUuids}
        \cup {Str(s) : s \in BoundedSeq(UuidChars, MaxStrLen)}
        \cup {Null, Undefined, Num(7)}

PuterUuidRequests ==
    {[op |-> "puter-uuid.validate", value |-> v,
      descriptor |-> [NoDescriptor EXCEPT !.prefix = p]] :
        v \in PuterUuidValues, p \in Opt(UuidPrefixes)}
    \cup
    {[op |-> o, descriptor |-> [NoDescriptor EXCEPT !.prefix = p], env |-> [uuid |-> u]] :
        o \in {"puter-uuid.factory", "puter-uuid.factory-validate"},
        p \in Opt(UuidPrefixes), u \in GeneratedUuids}

ImageChars == {"a", "<", ">", "&", DoubleQuote, "'", Backtick}
ImageHeads == {DataImagePrefix, <<>>, SubSeq(DataImagePrefix, 1, 10), <<"<">> \o DataImagePrefix}
ImageValues ==
    {Str(h \o s) : h \in ImageHeads, s \in BoundedSeq(ImageChars, MaxStrLen)}
        \cup {Null, Undefined, Num(7)}

ImageBase64Requests == {[op |-> "image-base64.validate", value |-> v] : v \in ImageValues}

ScalarTypes ==
    {"string", "flag", "json", "datetime", "uuid", "puter-uuid", "image-base64", "url"}
ScalarValues ==
    TextValues \cup {Undefined, Null, Num(0), Num(1), Num(42), Bool(TRUE), Bool(FALSE),
                     Str(<<"0">>), Str(<<"1">>), Arr(<<>>), PlainObject(Some(7))}

RoundTripRequests ==
    {[op |-> "roundtrip", type |-> t, value |-> v, descriptor |-> NoDescriptor,
      env |-> NoEnv] : t \in ScalarTypes, v \in ScalarValues}

OptionFlags == {Undefined, Bool(FALSE), Bool(TRUE)}
ResponderAnswers == {Undefined, Str(<<"o", "k">>)}

AbuseRequests ==
    {[op |-> "abuse",
      options |-> [no_bots |-> nb, shadow_ban_responder |-> sb, puter_origin |-> po],
      requester |-> [is_bot |-> b, is_puter_origin |-> o]] :
        nb \in OptionFlags, sb \in Opt(ResponderAnswers), po \in OptionFlags,
        b \in OptionFlags, o \in BOOLEAN}

Requests ==
    ReferenceRequests \cup NodeStoreRequests \cup
    NodeAdaptRequests \cup NodeValidateRequests \cup StringValidateRequests
        \cup ArrayValidateRequests \cup StringAdaptRequests \cup FlagAdaptRequests
        \cup AbuseRequests
        \cup RoundTripRequests
        \cup ImageBase64Requests
        \cup PuterUuidRequests
        \cup IsSetRequests

-----------------------------------------------------------------------------
(* The type operations as steps: Init draws an invocation, the step of its
   operation runs it to its end *)

Init ==
    /\ req \in Requests
    /\ outcome = Pending
    /\ fsLog = <<>>
    /\ aclLog = <<>>
    /\ svcLog = <<>>
    /\ mwLog = <<>>
    /\ registry = Declared
    /\ sealed = FALSE
    /\ resolved = None
    /\ entityOp = None
    /\ fstate = <<>>
    /\ ran = <<>>
    /\ applied = {}

Finish(r) ==
    /\ outcome' = r.out
    /\ fsLog' = r.fs
    /\ aclLog' = r.acl
    /\ svcLog' = r.svc
    /\ UNCHANGED <<req, mwLog, regVars, pipeVars>>

PuterNodeAdaptCall ==
    /\ outcome = Pending
    /\ req.op = "puter-node.adapt"
    /\ Finish(PuterNodeAdapt(req.value, req.name, req.user, req.env))

PuterNodeValidateCall ==
    /\ outcome = Pending
    /\ req.op = "puter-node.validate"
    /\ Finish(PuterNodeValidate(req.value, req.name, req.descriptor, req.actor, req.env))

StringValidateCall ==
    /\ outcome = Pending
    /\ req.op = "string.validate"
    /\ Finish(Result(StringValidate(req.value, req.name, req.descriptor), <<>>, <<>>))

ArrayValidateCall ==
    /\ outcome = Pending
    /\ req.op = "array.validate"
    /\ Finish(Result(ArrayValidate(req.value, req.name, req.descriptor), <<>>, <<>>))

StringAdaptCall ==
    /\ outcome = Pending
    /\ req.op = "string.adapt"
    /\ Finish(Result(StringAdapt(req.value), <<>>, <<>>))

FlagAdaptCall ==
    /\ outcome = Pending
    /\ req.op = "flag.adapt"
    /\ Finish(Result(FlagAdapt(req.value), <<>>, <<>>))

ReferenceAdaptCall ==
    /\ outcome = Pending
    /\ req.op = "reference.adapt"
    /\ Finish(ReferenceAdapt(req.value, req.descriptor, req.env))

ReferenceSqlReferenceCall ==
    /\ outcome = Pending
    /\ req.op = "reference.sql_reference"
    /\ Finish(ResultSvc(ReferenceSqlReference(req.value, req.descriptor), <<>>))

ReferenceSqlDereferenceCall ==
    /\ outcome = Pending
    /\ req.op = "reference.sql_dereference"
    /\ Finish(ReferenceSqlDereference(req.value, req.descriptor, req.env))

ReferenceRoundTripCall ==
    /\ outcome = Pending
    /\ req.op = "reference.roundtrip"
    /\ Finish(ReferenceRoundTrip(req.value, req.descriptor, req.env))

PuterNodeSqlReferenceCall ==
    /\ outcome = Pending
    /\ req.op = "puter-node.sql_reference"
    /\ Finish(PuterNodeSqlReference(req.value))

PuterNodeSqlDereferenceCall ==
    /\ outcome = Pending
    /\ req.op = "puter-node.sql_dereference"
    /\ Finish(PuterNodeSqlDereference(req.value, req.env))

IsSetCall ==
    /\ outcome = Pending
    /\ req.op = "is_set"
    /\ Finish(Result(TypeIsSet(req.type, req.value), <<>>, <<>>))

PuterUuidValidateCall ==
    /\ outcome = Pending
    /\ req.op = "puter-uuid.validate"
    /\ Finish(Result(PuterUuidValidate(req.value, req.descriptor), <<>>, <<>>))

PuterUuidFactoryCall ==
    /\ outcome = Pending
    /\ req.op = "puter-uuid.factory"
    /\ Finish(Result(PuterUuidFactory(req.descriptor, req.env), <<>>, <<>>))

PuterUuidFactoryValidateCall ==
    /\ outcome = Pending
    /\ req.op = "puter-uuid.factory-validate"
    /\ Finish(Result(PuterUuidFactoryValidate(req.descriptor, req.env), <<>>, <<>>))

ImageBase64ValidateCall ==
    /\ outcome = Pending
    /\ req.op = "image-base64.validate"
    /\ Finish(Result(ImageBase64Validate(req.value), <<>>, <<>>))

RoundTripCall ==
    /\ outcome = Pending
    /\ req.op = "roundtrip"
    /\ Finish(Result(TypeRoundTrip(req.type, req.value, req.descriptor, req.env),
                     <<>>, <<>>))

AbuseCall ==
    /\ outcome = Pending
    /\ req.op = "abuse"
    /\ LET r == Abuse(req.options, req.requester)
       IN  /\ outcome' = r.out
           /\ mwLog' = r.calls
    /\ UNCHANGED <<req, fsLog, aclLog, svcLog, regVars, pipeVars>>

Next ==
    \/ ReferenceAdaptCall
    \/ ReferenceSqlReferenceCall
    \/ ReferenceSqlDereferenceCall
    \/ ReferenceRoundTripCall
    \/ PuterNodeSqlReferenceCall
    \/ PuterNodeSqlDereferenceCall
    \/ StringAdaptCall
    \/ FlagAdaptCall
    \/ PuterNodeAdaptCall
    \/ PuterNodeValidateCall
    \/ StringValidateCall
    \/ ArrayValidateCall
    \/ AbuseCall
    \/ RoundTripCall
    \/ ImageBase64ValidateCall
    \/ PuterUuidValidateCall
    \/ PuterUuidFactoryCall
    \/ PuterUuidFactoryValidateCall
    \/ IsSetCall

Spec == Init /\ [][Next]_vars

\* The registry on its own: registrations at startup, then resolves
SpecRegistry == RegistryStart /\ [][RegistryNext]_vars

Done == outcome # Pending
Returned == outcome.how = "return"
Thrown == outcome.how = "throw"

-----------------------------------------------------------------------------
(* Properties of puter-node validate *)

NodeValidated ==
    Done /\ req.op = "puter-node.validate" /\ req.value.t = "node"
ForbiddenError == APIError("forbidden", NoFields)
RequestedPermission ==
    IF req.descriptor.fs_permission = None THEN "see"
    ELSE req.descriptor.fs_permission[1]

\* C1: validate on a non-null node whose path is "/" always yields the forbidden
\* error, whatever the access-control service's check would answer.
C1_RootAlwaysForbidden ==
    (NodeValidated /\ req.value.path = <<"/">>) => outcome.val = ForbiddenError

C1_Witness ==
    /\ NodeValidated
    /\ req.value.path = <<"/">>
    /\ req.env.check = TRUE
    /\ outcome.val = ForbiddenError

\* C2: on a non-root node validate checks the configured permission ("see" when
\* none is configured) for the current actor: check true gives no error, check
\* false gives exactly what get_safe_acl_error builds for the same actor, node
\* and permission.
C2_PermissionChecked ==
    (NodeValidated /\ req.value.path # <<"/">>) =>
        /\ Len(aclLog) >= 1
        /\ aclLog[1] = AclCheck(req.actor, req.value, RequestedPermission)
        /\ req.env.check =>
              /\ outcome = Return(Undefined)
              /\ Len(aclLog) = 1
        /\ ~ req.env.check =>
              /\ outcome.val = SafeAclError(req.actor, req.value, RequestedPermission)
              /\ aclLog = <<AclCheck(req.actor, req.value, RequestedPermission),
                            AclGetSafeError(req.actor, req.value, RequestedPermission)>>

C2_Witness ==
    /\ NodeValidated
    /\ req.value.path # <<"/">>
    /\ req.descriptor.fs_permission = Some("write")
    /\ ~ req.env.check
    /\ outcome.val = SafeAclError(req.actor, req.value, "write")

PermissionDenied ==
    NodeValidated /\ (req.value.path = <<"/">> \/ ~ req.env.check)

\* C3 as stated: a permission denial found by validate is signalled as a thrown error.
C3_DenialIsThrown == PermissionDenied => Thrown

\* C3 as amended: a permission denial found by validate (the root node, or a
\* check answering false) is handed back as a returned error value; validate
\* does not throw it.
C3_DenialIsReturned ==
    PermissionDenied =>
        /\ Returned
        /\ outcome.val.t \in {"APIError", "SafeAclError"}

C3_Witness ==
    /\ PermissionDenied
    /\ req.value.path # <<"/">>
    /\ Returned
    /\ outcome.val.t = "SafeAclError"

-----------------------------------------------------------------------------
(* Properties of puter-node adapt *)

NodeAdaptedString ==
    Done /\ req.op = "puter-node.adapt" /\ req.value.t = "string"
StartsWithChar(s, c) == Len(s) >= 1 /\ s[1] = c
LooksLikePath(s) ==
    StartsWithChar(s, "/") \/ StartsWithChar(s, ".") \/ StartsWithChar(s, "~")

\* C4: adapt resolves a valid UUID through a by-UID selector, an absolute path
\* through a by-path selector on that path, and a "~" value through a by-path
\* selector on "/<username>" followed by the rest of the value ("~/docs" of
\* alice gives "/alice/docs"); "~" with no actor throws and looks nothing up.
C4_AdaptSelectors ==
    NodeAdaptedString =>
        /\ (~ LooksLikePath(req.value.s) /\ req.env.validUuid) =>
              /\ fsLog = <<NodeUIDSelector(req.value.s)>>
              /\ outcome = Return(req.env.node)
        /\ (StartsWithChar(req.value.s, "/") /\ req.env.validPath) =>
              /\ fsLog = <<NodePathSelector(req.value.s)>>
              /\ outcome = Return(req.env.node)
        /\ (StartsWithChar(req.value.s, "~") /\ req.user # None /\ req.env.validPath) =>
              /\ fsLog = <<NodePathSelector(<<"/">> \o req.user[1].username
                                               \o Tail(req.value.s))>>
              /\ outcome = Return(req.env.node)
        /\ (req.value.s = <<"~", "/", "d", "o", "c", "s">> /\ req.user = Some(Alice)
              /\ req.env.validPath) =>
              fsLog = <<NodePathSelector(
                          <<"/", "a", "l", "i", "c", "e", "/", "d", "o", "c", "s">>)>>
        /\ (StartsWithChar(req.value.s, "~") /\ req.user = None) =>
              /\ Thrown
              /\ fsLog = <<>>

C4_Witness ==
    /\ NodeAdaptedString
    /\ req.value.s = <<"~", "/", "d", "o", "c", "s">>
    /\ req.user = Some(Alice)
    /\ Returned
    /\ fsLog = <<NodePathSelector(<<"/", "a", "l", "i", "c", "e", "/", "d", "o", "c", "s">>)>>

MalformedPath ==
    /\ NodeAdaptedString
    /\ LooksLikePath(req.value.s)
    /\ ~ (StartsWithChar(req.value.s, "~") /\ req.user = None)
    /\ ~ req.env.validPath

\* C5: a malformed path is rejected by a thrown field_invalid error carrying the
\* field key and the expected formats, and the filesystem service's lookup is
\* never called for it.
C5_MalformedPathRejectedBeforeLookup ==
    MalformedPath =>
        /\ Thrown
        /\ outcome.val.t = "APIError"
        /\ outcome.val.code = "field_invalid"
        /\ outcome.val.fields.key = Some(req.name)
        /\ outcome.val.fields.expected = Some("unix-style path or UUID")
        /\ fsLog = <<>>

C5_Witness ==
    /\ MalformedPath
    /\ StartsWithChar(req.value.s, "~")
    /\ Thrown
    /\ outcome.val.code = "field_invalid"
    /\ fsLog = <<>>

-----------------------------------------------------------------------------
(* Properties of string validate and array validate *)

LengthValidated ==
    \/ Done /\ req.op = "string.validate" /\ req.value.t = "string"
    \/ Done /\ req.op = "array.validate" /\ req.value.t = "array"
ValueLength ==
    IF req.value.t = "string" THEN Len(req.value.s) ELSE Len(req.value.a)
TooLong ==
    LengthValidated /\ req.descriptor.maxlen # None
        /\ ValueLength > req.descriptor.maxlen[1]
ThrownCode(code) ==
    Thrown /\ outcome.val.t = "APIError" /\ outcome.val.code = code

\* C10: string validate and array validate throw field_too_long, carrying the
\* field key and the configured maximum, whenever maxlen is configured and the
\* value's length exceeds it, and never throw it when the length is at most maxlen.
C10_TooLongThrown ==
    (Done /\ req.op \in {"string.validate", "array.validate"}) =>
        /\ TooLong =>
              /\ ThrownCode("field_too_long")
              /\ outcome.val.fields.key = Some(req.name)
              /\ outcome.val.fields.max_length = req.descriptor.maxlen
        /\ ~ TooLong => ~ ThrownCode("field_too_long")

C10_Witness ==
    /\ Done
    /\ req.op = "array.validate"
    /\ req.value = Arr(<<1, 2, 3, 4>>)
    /\ req.descriptor.maxlen = Some(3)
    /\ outcome = Throw(APIError("field_too_long",
                                [NoFields EXCEPT !.key = Some(req.name),
                                                 !.max_length = Some(3)]))

-----------------------------------------------------------------------------
(* Properties of type inheritance *)

\* The d-th parent of a type in the registry (the type itself for d = 0), None
\* when the chain ends or leaves the registry before
RECURSIVE AncestorAt(_, _)
AncestorAt(name, d) ==
    IF name \notin DOMAIN registry THEN None
    ELSE IF d = 0 THEN Some(name)
    ELSE IF registry[name].from = None THEN None
    ELSE AncestorAt(registry[name].from[1], d - 1)

Defines(name, d, op) ==
    AncestorAt(name, d) # None /\ op \in registry[AncestorAt(name, d)[1]].ops

ResolvedOk == resolved # None /\ resolved[1].result.ok

\* C8: for every type with a parent, the resolved operation set holds every
\* operation of every ancestor that no nearer type of the chain defines, and
\* the definition nearest the type wins, at any depth (uuid: adapt from string,
\* is_set from base, validate its own).
C8_InheritanceResolved ==
    ResolvedOk =>
        LET name == resolved[1].name
            ops == resolved[1].result.ops
        IN  /\ \A op \in OpNames, d \in 0..MaxChain :
                  (Defines(name, d, op) /\ \A e \in 0..(d - 1) : ~ Defines(name, e, op))
                      => ops[op] = AncestorAt(name, d)
            /\ \A op \in OpNames :
                  (\A d \in 0..MaxChain : ~ Defines(name, d, op)) => ops[op] = None
            /\ name = "uuid" =>
                  /\ ops["adapt"] = Some("string")
                  /\ ops["is_set"] = Some("base")
                  /\ ops["validate"] = Some("uuid")
            /\ name = "image-base64" => ops["is_set"] = Some("base")

C8_Witness ==
    /\ ResolvedOk
    /\ resolved[1].name = "x-b"
    /\ registry["x-b"] = [from |-> Some("x-a"), ops |-> {}]
    /\ registry["x-a"] = [from |-> Some("uuid"), ops |-> {"adapt"}]
    /\ resolved[1].result.ops["adapt"] = Some("x-a")
    /\ resolved[1].result.ops["validate"] = Some("uuid")
    /\ resolved[1].result.ops["is_set"] = Some("base")

\* The names met by following "from" from a type, the type included
ChainNames(name) ==
    {n \in DOMAIN registry \cup ExtraParents :
        \E d \in 0..(MaxChain + 1) :
            \/ AncestorAt(name, d) = Some(n)
            \/ /\ d > 0
               /\ AncestorAt(name, d - 1) # None
               /\ registry[AncestorAt(name, d - 1)[1]].from = Some(n)}

\* The chain of a type is broken when it names an unregistered parent or when
\* it does not end within the number of registered types (a cycle)
ChainBroken(name) ==
    \/ \E n \in ChainNames(name) : n \notin DOMAIN registry
    \/ AncestorAt(name, Cardinality(DOMAIN registry)) # None

\* C9: every declared type's chain names registered types only, is acyclic and
\* ends at a root, so its resolve succeeds; the resolve of a type whose chain
\* names an unregistered parent or holds a cycle fails with a ConfigurationError.
C9_ChainsWellFounded ==
    resolved # None =>
        LET name == resolved[1].name
            result == resolved[1].result
        IN  /\ name \in TypeNames =>
                  /\ result.ok
                  /\ \A i \in 1..Len(result.chain) : result.chain[i] \in TypeNames
                  /\ registry[result.chain[Len(result.chain)]].from = None
                  /\ Cardinality({result.chain[i] : i \in 1..Len(result.chain)})
                        = Len(result.chain)
            /\ ChainBroken(name) =>
                  /\ ~ result.ok
                  /\ result.error = "ConfigurationError"
            /\ ~ ChainBroken(name) => result.ok

C9_Witness ==
    /\ resolved # None
    /\ resolved[1].name = "x-a"
    /\ registry["x-a"].from = Some("x-b")
    /\ "x-b" \in DOMAIN registry
    /\ registry["x-b"].from = Some("x-a")
    /\ ~ resolved[1].result.ok
    /\ resolved[1].result.error = "ConfigurationError"

-----------------------------------------------------------------------------
(* Properties of the field pipeline *)

IsPrefix(a, b) == Len(a) <= Len(b) /\ SubSeq(b, 1, Len(a)) = a
PersistOrder == <<"is_set", "adapt", "validate", "sql_reference">>
PersistOrderGenerated == <<"is_set", "factory", "adapt", "validate", "sql_reference">>
LoadOrder == <<"is_set", "adapt", "validate", "sql_dereference">>
LoadOrderGenerated == <<"is_set", "factory", "adapt", "validate", "sql_dereference">>

StagesInOrder(f) ==
    LET names == StageNames(ran[f])
    IN  /\ IF entityOp[1].direction = "persist"
           THEN IsPrefix(names, PersistOrder) \/ IsPrefix(names, PersistOrderGenerated)
           ELSE IsPrefix(names, LoadOrder) \/ IsPrefix(names, LoadOrderGenerated)
        /\ (\E i \in 1..Len(names) : names[i] = "factory")
              => ~ entityOp[1].fields[f].supplied
        /\ fstate[f] = "Adapted" => LastStage(ran[f]) = "adapt"
        /\ fstate[f] = "Validated" => LastStage(ran[f]) = "validate"
        /\ fstate[f] = "Persisted" => LastStage(ran[f]) = "sql_reference"
        /\ fstate[f] = "Loaded" => LastStage(ran[f]) = "sql_dereference"

ForwardMoves ==
    {<<"Unresolved", "Adapted">>, <<"Adapted", "Validated">>,
     <<"Validated", "Persisted">>, <<"Validated", "Loaded">>}

MovesForward(f) ==
    \/ fstate'[f] = fstate[f]
    \/ <<fstate[f], fstate'[f]>> \in ForwardMoves
    \/ fstate[f] \in {"Unresolved", "Adapted", "Validated"} /\ fstate'[f] = "Failed"

\* C6: for one field the stages run in the order is_set, adapt, validate, then
\* sql_reference (persist) or sql_dereference (load); the field's state only
\* moves forward along Unresolved, Adapted, Validated, Persisted or Loaded; and
\* factory runs only when no value was supplied.
C6_StagesInOrder ==
    /\ [](\A f \in Fields : StagesInOrder(f))
    /\ [][\A f \in Fields : MovesForward(f)]_vars

C6_Witness ==
    \E f \in Fields :
        /\ fstate[f] = "Persisted"
        /\ StageNames(ran[f]) = PersistOrderGenerated
        /\ ~ entityOp[1].fields[f].supplied

Threw(f) == ran[f] # <<>> /\ ran[f][Len(ran[f])].result = "throw"

FailureIsTerminal ==
    /\ \A f \in Fields :
          /\ Threw(f) => (fstate[f] = "Failed" /\ entityOp[1].state = "Failed")
          /\ fstate[f] = "Failed" => Threw(f)
          /\ \A i \in 1..(Len(ran[f]) - 1) : ran[f][i].result = "ok"
    /\ entityOp[1].state = "Failed" => applied = {}

\* C7: a throw from adapt, validate, sql_reference or sql_dereference moves the
\* field and its operation to the terminal Failed state: no stage runs
\* afterwards, nothing is retried, and no field mutation is applied.
C7_FailureAborts ==
    /\ []FailureIsTerminal
    /\ [][entityOp[1].state = "Failed" => UNCHANGED <<entityOp, fstate, ran, applied>>]_vars

C7_Witness ==
    \E f, g \in Fields :
        /\ f # g
        /\ Threw(f)
        /\ LastStage(ran[f]) = "validate"
        /\ fstate[f] = "Failed"
        /\ fstate[g] = "Validated"
        /\ entityOp[1].state = "Failed"
        /\ applied = {}

-----------------------------------------------------------------------------
(* Properties of the minimum-length constraint *)

TooShort ==
    LengthValidated /\ req.descriptor.minlen # None
        /\ ValueLength < req.descriptor.minlen[1]
WithinMaxlen ==
    req.descriptor.maxlen = None \/ ValueLength <= req.descriptor.maxlen[1]

\* C11: string validate and array validate throw field_too_short exactly when
\* minlen is configured and the value's length is below it, the error carrying
\* the field key and the configured minlen; a value whose length is at least
\* minlen (and at most maxlen) is never rejected as too short.
C11_TooShortThrown ==
    (LengthValidated /\ WithinMaxlen) =>
        /\ TooShort =>
              /\ ThrownCode("field_too_short")
              /\ outcome.val.fields.key = Some(req.name)
              /\ outcome.val.fields.min_length = req.descriptor.minlen
        /\ ~ TooShort => ~ ThrownCode("field_too_short")

WithinLengthLimits ==
    /\ WithinMaxlen
    /\ req.descriptor.minlen = None \/ ValueLength >= req.descriptor.minlen[1]

-----------------------------------------------------------------------------
(* Properties of the regex and modulo constraints *)

StringValidated == Done /\ req.op = "string.validate" /\ req.value.t = "string"
RegexMismatch ==
    /\ req.descriptor.regex # None
    /\ \E i \in 1..Len(req.value.s) : req.value.s[i] \notin req.descriptor.regex[1]

\* C12: for a string within its length limits, a regex mismatch is a returned
\* error value, never a thrown one, and a match (or no regex) returns true.
C12_RegexMismatchIsSoft ==
    (StringValidated /\ WithinLengthLimits) =>
        /\ RegexMismatch => (Returned /\ outcome.val.t = "Error")
        /\ ~ RegexMismatch => outcome = Return(Bool(TRUE))

\* C12 where the minimum-length test cannot interfere (no minlen configured)
C12_RegexMismatchIsSoftNoMinlen ==
    (StringValidated /\ WithinLengthLimits /\ req.descriptor.minlen = None) =>
        /\ RegexMismatch => (Returned /\ outcome.val.t = "Error")
        /\ ~ RegexMismatch => outcome = Return(Bool(TRUE))

ArrayValidated == Done /\ req.op = "array.validate" /\ req.value.t = "array"
NotDivisible ==
    req.descriptor.mod # None /\ Len(req.value.a) % req.descriptor.mod[1] # 0

\* C13: for an array within its length limits, array validate throws
\* field_invalid with the field key and the modulus whenever mod is configured
\* and the length is not divisible by it, and returns true otherwise; a value
\* that is no array gets a returned (not thrown) type-mismatch error.
C13_ModuloThrown ==
    /\ (ArrayValidated /\ WithinLengthLimits) =>
          /\ NotDivisible =>
                /\ ThrownCode("field_invalid")
                /\ outcome.val.fields.key = Some(req.name)
                /\ outcome.val.fields.mod = req.descriptor.mod
          /\ ~ NotDivisible => outcome = Return(Bool(TRUE))
    /\ (Done /\ req.op = "array.validate" /\ req.value.t # "array") =>
          (Returned /\ outcome.val.t = "OMTypeError" /\ outcome.val.expected = "array")

\* C13 where the minimum-length test cannot interfere (no minlen configured)
C13_ModuloThrownNoMinlen ==
    /\ (ArrayValidated /\ WithinLengthLimits /\ req.descriptor.minlen = None) =>
          /\ NotDivisible =>
                /\ ThrownCode("field_invalid")
                /\ outcome.val.fields.key = Some(req.name)
                /\ outcome.val.fields.mod = req.descriptor.mod
          /\ ~ NotDivisible => outcome = Return(Bool(TRUE))
    /\ (Done /\ req.op = "array.validate" /\ req.value.t # "array") =>
          (Returned /\ outcome.val.t = "OMTypeError" /\ outcome.val.expected = "array")

-----------------------------------------------------------------------------
(* Properties of string adapt and flag adapt *)

JsType ==
    IF req.value.t \in {"undefined", "string", "number", "boolean"} THEN req.value.t
    ELSE "object"

\* C14: string adapt maps undefined and null to the empty string, returns every
\* string unchanged, and throws a type-mismatch error (expected string, got the
\* actual type) for every other input.
C14_StringAdapt ==
    (Done /\ req.op = "string.adapt") =>
        /\ req.value.t \in {"undefined", "null"} => outcome = Return(Str(<<>>))
        /\ req.value.t = "string" => outcome = Return(req.value)
        /\ req.value.t \notin {"undefined", "null", "string"} =>
              outcome = Throw(OMTypeError("string", JsType))

C14_Witness ==
    /\ Done
    /\ req.op = "string.adapt"
    /\ req.value = Null
    /\ outcome = Return(Str(<<>>))

FlagFalseInputs == {Undefined, Num(0), Str(<<"0">>), Bool(FALSE)}
FlagTrueInputs == {Num(1), Str(<<"1">>), Bool(TRUE)}

\* C15: flag adapt returns false for undefined, 0, '0' and false, true for 1,
\* '1' and true, and throws a type-mismatch error for every other input (null
\* and "yes" included); what it returns is always a boolean.
C15_FlagAdapt ==
    (Done /\ req.op = "flag.adapt") =>
        /\ req.value \in FlagFalseInputs => outcome = Return(Bool(FALSE))
        /\ req.value \in FlagTrueInputs => outcome = Return(Bool(TRUE))
        /\ req.value \notin FlagFalseInputs \cup FlagTrueInputs =>
              outcome = Throw(OMTypeError("boolean", JsType))
        /\ Returned => outcome.val.t = "boolean"

C15_Witness ==
    /\ Done
    /\ req.op = "flag.adapt"
    /\ req.value = Str(<<"y", "e", "s">>)
    /\ outcome = Throw(OMTypeError("boolean", "string"))

-----------------------------------------------------------------------------
(* Properties of the reference type *)

RefDone(op) == Done /\ req.op = op
HasService == req.descriptor.service # None
IsEntity == req.value.t = "entity"
Falsy ==
    req.value \in {Null, Undefined, Num(0), Str(<<>>), Bool(FALSE)}
ReadOfValue ==
    /\ svcLog = <<ReadCall(req.descriptor.service[1], req.value)>>
    /\ outcome = Return(req.env.entity)

\* C16 as stated: no target service passes the value through; with one, an
\* entity is returned unchanged without a read, and any other value gives the
\* result of the service's read of that value.
C16_AdaptReadsEveryOtherValue ==
    RefDone("reference.adapt") =>
        /\ ~ HasService => (outcome = Return(req.value) /\ svcLog = <<>>)
        /\ (HasService /\ IsEntity) => (outcome = Return(req.value) /\ svcLog = <<>>)
        /\ (HasService /\ ~ IsEntity) => ReadOfValue

\* C16 as amended: no target service passes the value through; with one, a
\* falsy value (null, undefined, 0, '', false) gives null without a read, an
\* entity is returned unchanged without a read, and any other value gives the
\* result of the service's read of that value.
C16_AdaptReadsTruthyValues ==
    RefDone("reference.adapt") =>
        /\ ~ HasService => (outcome = Return(req.value) /\ svcLog = <<>>)
        /\ (HasService /\ Falsy) => (outcome = Return(Null) /\ svcLog = <<>>)
        /\ (HasService /\ IsEntity) => (outcome = Return(req.value) /\ svcLog = <<>>)
        /\ (HasService /\ ~ IsEntity /\ ~ Falsy) => ReadOfValue

C16_Witness ==
    /\ RefDone("reference.adapt")
    /\ HasService
    /\ req.value = Num(7)
    /\ req.env.entity = Entity(Some(7))
    /\ svcLog = <<ReadCall(req.descriptor.service[1], Num(7))>>
    /\ outcome = Return(Entity(Some(7)))

StorageId ==
    IF req.value.private_meta.mysql_id = None THEN Undefined
    ELSE Num(req.value.private_meta.mysql_id[1])
OwnId ==
    IF req.value.t = "object" /\ req.value.id # None THEN Num(req.value.id[1])
    ELSE Undefined

\* C17 as stated: sql_reference converts an entity to the storage identifier of
\* its private metadata and passes a non-entity value through unchanged.
C17_EntityToIdPlainUnchanged ==
    RefDone("reference.sql_reference") =>
        /\ IsEntity => outcome = Return(StorageId)
        /\ ~ IsEntity => outcome = Return(req.value)

\* C17 as amended: with a target service sql_reference converts an entity to
\* the storage identifier of its private metadata, a falsy value to null and
\* any other non-entity value to that value's id property; with no target
\* service it passes every value through unchanged.
C17_SqlReferenceByService ==
    RefDone("reference.sql_reference") =>
        /\ ~ HasService => outcome = Return(req.value)
        /\ (HasService /\ IsEntity) => outcome = Return(StorageId)
        /\ (HasService /\ Falsy) => outcome = Return(Null)
        /\ (HasService /\ ~ IsEntity /\ ~ Falsy) => outcome = Return(OwnId)

C17_Witness ==
    /\ RefDone("reference.sql_reference")
    /\ HasService
    /\ req.value = Entity(Some(7))
    /\ outcome = Return(Num(7))

SqlReferenceDone ==
    Done /\ req.op \in {"reference.sql_reference", "puter-node.sql_reference"}

\* C18 as stated: sql_reference returns null for null and for undefined, for
\* reference (with or without a target service) and for puter-node.
C18_AbsentGivesNull ==
    (SqlReferenceDone /\ req.value \in {Null, Undefined}) => outcome = Return(Null)

\* C18 as amended: sql_reference returns null for null, for reference (with or
\* without a target service) and for puter-node, and does not throw; for
\* undefined, reference with a target service returns null, reference without
\* one returns undefined, and puter-node throws.
C18_NullGivesNull ==
    SqlReferenceDone =>
        /\ req.value = Null => outcome = Return(Null)
        /\ (req.value = Undefined /\ req.op = "reference.sql_reference") =>
              outcome = Return(IF HasService THEN Null ELSE Undefined)
        /\ (req.value = Undefined /\ req.op = "puter-node.sql_reference") =>
              (Thrown /\ outcome.val.t = "Error")

C18_Witness ==
    /\ Done
    /\ req.op = "puter-node.sql_reference"
    /\ req.value = Null
    /\ outcome = Return(Null)

\* C19: for an entity of the target service, sql_dereference of its
\* sql_reference calls the service's read with the entity's storage identifier
\* and returns what read returns; an absent stored value gives null with no
\* read; with no target service the stored value is returned unchanged.
C19_DereferenceInvertsReference ==
    /\ (RefDone("reference.roundtrip") /\ HasService /\ IsEntity
          /\ req.value.private_meta.mysql_id # None) =>
          /\ svcLog = <<ReadCall(req.descriptor.service[1], StorageId)>>
          /\ outcome = Return(req.env.entity)
    /\ (RefDone("reference.sql_dereference") /\ HasService
          /\ req.value \in {Null, Undefined}) =>
          (outcome = Return(Null) /\ svcLog = <<>>)
    /\ (RefDone("reference.sql_dereference") /\ ~ HasService) =>
          (outcome = Return(req.value) /\ svcLog = <<>>)

C19_Witness ==
    /\ RefDone("reference.roundtrip")
    /\ req.descriptor.service = Some("es:app")
    /\ req.value = Entity(Some(1))
    /\ req.env.entity = Entity(Some(7))
    /\ svcLog = <<ReadCall("es:app", Num(1))>>
    /\ outcome = Return(Entity(Some(7)))

-----------------------------------------------------------------------------
(* Properties of the persisted form of puter-node *)

\* C20: sql_reference maps a node handle to its internal numeric identifier
\* (null when it has none) after fetching its entry; sql_dereference maps a
\* number to a node handle through the by-internal-id lookup; null maps to null
\* both ways; sql_reference throws for a value that is no node handle, and
\* sql_dereference throws for a non-null non-number without a lookup.
C20_NodeIdMapping ==
    /\ (Done /\ req.op = "puter-node.sql_reference") =>
          /\ req.value = Null => (outcome = Return(Null) /\ fsLog = <<>>)
          /\ req.value.t = "node" =>
                /\ fsLog = <<FetchEntry(req.value)>>
                /\ outcome = Return(IF req.value.mysql_id = None THEN Null
                                    ELSE Num(req.value.mysql_id[1]))
          /\ req.value.t \notin {"null", "node"} => (Thrown /\ fsLog = <<>>)
    /\ (Done /\ req.op = "puter-node.sql_dereference") =>
          /\ req.value = Null => (outcome = Return(Null) /\ fsLog = <<>>)
          /\ req.value.t = "number" =>
                /\ fsLog = <<[sel |-> "internal-id", store |-> "mysql", id |-> req.value]>>
                /\ outcome = Return(req.env.node)
          /\ req.value.t \notin {"null", "number"} => (Thrown /\ fsLog = <<>>)

C20_Witness ==
    /\ Done
    /\ req.op = "puter-node.sql_dereference"
    /\ req.value = Num(7)
    /\ fsLog = <<[sel |-> "internal-id", store |-> "mysql", id |-> Num(7)]>>
    /\ outcome = Return(req.env.node)
    /\ outcome.val.t = "node"


-----------------------------------------------------------------------------
(* Properties of is_set *)

IsSetDone == Done /\ req.op = "is_set"
\* The types that take is_set from base: base and its descendants
InheritsBaseIsSet ==
    req.type \in {"base", "json", "string", "array", "uuid", "puter-uuid",
                  "image-base64", "url", "datetime"}
ReferenceLike == req.type \in {"reference", "puter-node"}

\* C21 as stated: is_set is truthiness for base and every type inheriting it
\* without override, and for reference and puter-node is_set(null) is true
\* while is_set(undefined) is false.
C21_NullIsSetForReferenceLike ==
    /\ (IsSetDone /\ InheritsBaseIsSet) => outcome = Return(Bool(Truthy(req.value)))
    /\ (IsSetDone /\ ReferenceLike /\ req.value = Null) => outcome = Return(Bool(TRUE))
    /\ (IsSetDone /\ ReferenceLike /\ req.value = Undefined) =>
          outcome = Return(Bool(FALSE))

\* C21 as the code has it: is_set is truthiness for base and every type
\* inheriting it, reference included (so reference is_set(null) is false);
\* puter-node alone overrides it: is_set(null) is true, is_set(undefined) is
\* false, every other value is set exactly when it is truthy.
C21_NullIsSetForPuterNodeOnly ==
    /\ (IsSetDone /\ (InheritsBaseIsSet \/ req.type = "reference")) =>
          outcome = Return(Bool(Truthy(req.value)))
    /\ (IsSetDone /\ req.type = "puter-node") =>
          outcome = Return(Bool(Truthy(req.value) \/ req.value = Null))

C21_Witness ==
    /\ IsSetDone
    /\ req.type = "puter-node"
    /\ req.value = Null
    /\ outcome = Return(Bool(TRUE))

\* reference is_set(null) is false
C21_ReferenceNullWitness ==
    /\ IsSetDone
    /\ req.type = "reference"
    /\ req.value = Null
    /\ outcome = Return(Bool(FALSE))


-----------------------------------------------------------------------------
(* Properties of puter-uuid *)

PrefixConfigured == req.descriptor.prefix # None
\* "p-" for the configured prefix p
DashedPrefix == req.descriptor.prefix[1] \o <<"-">>
UuidValidated ==
    Done /\ req.op = "puter-uuid.validate" /\ PrefixConfigured /\ req.value.t = "string"

\* C22: with a configured prefix p, validate returns true for "p-" followed by
\* a valid UUID and returns (never throws) an Error for a string that does not
\* start with "p-"; factory returns "p-" followed by the generated version 4
\* UUID, and validate under the same descriptor accepts every value factory
\* produces.
C22_PuterUuid ==
    /\ (UuidValidated /\ StartsWith(req.value.s, DashedPrefix)
          /\ IsValidUuid(Slice(req.value.s, Len(DashedPrefix)))) =>
          outcome = Return(Bool(TRUE))
    /\ (UuidValidated /\ ~ StartsWith(req.value.s, DashedPrefix)) =>
          (Returned /\ outcome.val.t = "Error")
    /\ (Done /\ req.op = "puter-uuid.factory" /\ PrefixConfigured) =>
          /\ IsValidUuid4(req.env.uuid)
          /\ outcome = Return(Str(DashedPrefix \o req.env.uuid))
    /\ (Done /\ req.op = "puter-uuid.factory-validate" /\ PrefixConfigured) =>
          outcome = Return(Bool(TRUE))

C22_Witness ==
    /\ Done
    /\ req.op = "puter-uuid.factory-validate"
    /\ req.descriptor.prefix = Some(<<"a", "p", "p">>)
    /\ outcome = Return(Bool(TRUE))

\* A wrong prefix before a valid UUID gives a returned Error
C22_WrongPrefixWitness ==
    /\ UuidValidated
    /\ req.descriptor.prefix = Some(<<"a", "p", "p">>)
    /\ req.value = Str(<<"a", "-">> \o UuidOf("0", "4", "8"))
    /\ Returned
    /\ outcome.val.t = "Error"


-----------------------------------------------------------------------------
(* Properties of image-base64 *)

ImageValidated == Done /\ req.op = "image-base64.validate" /\ req.value.t = "string"
\* validate reports valid by returning true or nothing
ReportedValid == outcome \in {Return(Bool(TRUE)), Return(Undefined)}
Denylisted == {"<", ">", "&", DoubleQuote, "'", Backtick}
IsDataImage == StartsWith(req.value.s, DataImagePrefix)
HasDenylisted == \E i \in 1..Len(req.value.s) : req.value.s[i] \in Denylisted

\* C23: validate reports a string as valid exactly when it starts with
\* "data:image/" and contains none of < > & " ' `; a string missing the prefix
\* or containing a denylisted character gets a returned Error, never a thrown one.
C23_ImageBase64 ==
    ImageValidated =>
        /\ ReportedValid <=> (IsDataImage /\ ~ HasDenylisted)
        /\ (~ IsDataImage \/ HasDenylisted) => (Returned /\ outcome.val.t = "Error")

C23_Witness ==
    /\ ImageValidated
    /\ IsDataImage
    /\ req.value.s[Len(req.value.s)] = Backtick
    /\ Returned
    /\ outcome.val.t = "Error"

\* A data URI without denylisted characters is reported valid
C23_ValidWitness ==
    /\ ImageValidated
    /\ req.value = Str(DataImagePrefix \o <<"a", "a">>)
    /\ ReportedValid


-----------------------------------------------------------------------------
(* Properties of persist and load for the scalar types *)

RoundTripDone == Done /\ req.op = "roundtrip"
IsScalarType ==
    req.type \in {"string", "flag", "json", "datetime", "uuid", "puter-uuid",
                  "image-base64", "url"}
\* adapt of the field's own value
Adapted == TypeAdapt(req.type, req.value, req.descriptor, req.env)

-----------------------------------------------------------------------------
(* Properties of the abuse middleware *)

AbuseDone == Done /\ req.op = "abuse"
\* How many times the middleware called next()
NextCalls == Cardinality({i \in 1..Len(mwLog) : mwLog[i] = "next"})
NoBots == req.options.no_bots = Bool(TRUE)
PuterOrigin == req.options.puter_origin = Bool(TRUE)
IsBot == req.requester.is_bot = Bool(TRUE)
BlockedBot == NoBots /\ IsBot
WrongOrigin == PuterOrigin /\ ~ req.requester.is_puter_origin
ForbiddenThrown == outcome = Throw([t |-> "APIError", code |-> "forbidden", fields |-> NoFields])

\* C25: the middleware calls next() at most once per request, and exactly when
\* the request passes every enabled check; with no_bots a bot never reaches
\* next(): a configured shadow_ban_responder is called, its result returned and
\* the origin test not evaluated, and without one forbidden is thrown; with
\* puter_origin a requester not from the Puter origin gets forbidden thrown.
C25_AbuseNext ==
    AbuseDone =>
        /\ NextCalls <= 1
        /\ NextCalls = 1 <=> (~ BlockedBot /\ ~ WrongOrigin)
        /\ (BlockedBot /\ req.options.shadow_ban_responder # None) =>
              /\ outcome = Return(req.options.shadow_ban_responder[1])
              /\ mwLog = <<"shadow_ban_responder">>
        /\ (BlockedBot /\ req.options.shadow_ban_responder = None) =>
              (ForbiddenThrown /\ mwLog = <<>>)
        /\ (~ BlockedBot /\ WrongOrigin) => ForbiddenThrown

C25_Witness ==
    /\ AbuseDone
    /\ BlockedBot
    /\ PuterOrigin
    /\ ~ req.requester.is_puter_origin
    /\ req.options.shadow_ban_responder = Some(Str(<<"o", "k">>))
    /\ outcome = Return(Str(<<"o", "k">>))
    /\ mwLog = <<"shadow_ban_responder">>

\* A request that passes both enabled checks reaches next() once
C25_PassWitness ==
    /\ AbuseDone
    /\ NoBots
    /\ PuterOrigin
    /\ ~ IsBot
    /\ mwLog = <<"is_puter_origin", "next">>


-----------------------------------------------------------------------------
(* Properties of the lookups of puter-node adapt *)

NodeAdapted == Done /\ req.op = "puter-node.adapt"
NeitherPathNorUuid ==
    /\ NodeAdapted
    /\ req.value.t = "string"
    /\ ~ LooksLikePath(req.value.s)
    /\ ~ req.env.validUuid

\* C26: every call adapt makes to the filesystem service's node lookup passes
\* a by-UID or by-path selector; a string that is neither a path (starting
\* with "/", "." or "~") nor a valid version 4 UUID is rejected without a
\* lookup; and whenever adapt returns, its result is null or a node handle,
\* never undefined.
C26_LookupsPassSelector ==
    /\ NodeAdapted => \A i \in 1..Len(fsLog) : fsLog[i].sel \in {"uid", "path"}
    /\ NeitherPathNorUuid => (Thrown /\ fsLog = <<>>)
    /\ (NodeAdapted /\ Returned) => (outcome.val = Null \/ outcome.val.t = "node")

\* The lookup is called without a selector for a string that is neither
C26_LookupWithoutSelector ==
    /\ NeitherPathNorUuid
    /\ req.value.s = <<"d">>
    /\ fsLog = <<[sel |-> "undefined"]>>
    /\ Returned

\* adapt of a number returns undefined
C26_ReturnsUndefined ==
    /\ NodeAdapted
    /\ req.value = Num(7)
    /\ outcome = Return(Undefined)


-----------------------------------------------------------------------------
(* Properties of the order of the checks of string validate and array validate *)

Validated == Done /\ req.op \in {"string.validate", "array.validate"}
ExpectedType == IF req.op = "string.validate" THEN "string" ELSE "array"
WronglyTyped == req.value.t # ExpectedType
TypeMismatchReturned ==
    Returned /\ outcome.val.t = "OMTypeError" /\ outcome.val.expected = ExpectedType
\* The last check: the regex of a string, the modulus of an array
LastCheckViolated ==
    IF req.op = "string.validate" THEN RegexMismatch ELSE NotDivisible
LastCheckOutcome ==
    IF req.op = "string.validate" THEN Returned /\ outcome.val.t = "Error"
    ELSE ThrownCode("field_invalid")

\* C27: the checks are applied in the order type, maxlen, minlen, then regex
\* (string) or mod (array), and the first violated check alone decides the
\* outcome: a wrongly typed value gives the returned type-mismatch error, a
\* value over maxlen gives field_too_long whatever else it violates, a value
\* within maxlen and under minlen gives field_too_short, a value within both
\* limits that fails the last check gives that check's outcome, and a value
\* that violates nothing is valid.
C27_FirstViolatedDecides ==
    Validated =>
        /\ WronglyTyped => TypeMismatchReturned
        /\ (~ WronglyTyped /\ TooLong) => ThrownCode("field_too_long")
        /\ (~ WronglyTyped /\ ~ TooLong /\ TooShort) => ThrownCode("field_too_short")
        /\ (~ WronglyTyped /\ ~ TooLong /\ ~ TooShort /\ LastCheckViolated) =>
              LastCheckOutcome
        /\ (~ WronglyTyped /\ ~ TooLong /\ ~ TooShort /\ ~ LastCheckViolated) =>
              outcome = Return(Bool(TRUE))

\* The same order holds when no minlen is configured
C27_FirstViolatedDecidesNoMinlen ==
    (Validated /\ req.descriptor.minlen = None) =>
        /\ WronglyTyped => TypeMismatchReturned
        /\ (~ WronglyTyped /\ TooLong) => ThrownCode("field_too_long")
        /\ (~ WronglyTyped /\ ~ TooLong /\ LastCheckViolated) => LastCheckOutcome
        /\ (~ WronglyTyped /\ ~ TooLong /\ ~ LastCheckViolated) =>
              outcome = Return(Bool(TRUE))

\* With any minlen: the type check and the maxlen check come first, and a
\* length error is thrown only for a value of the right type
C27_TypeAndMaxlenFirst ==
    Validated =>
        /\ WronglyTyped => TypeMismatchReturned
        /\ (~ WronglyTyped /\ TooLong) => ThrownCode("field_too_long")
        /\ ThrownCode("field_too_short") => (~ WronglyTyped /\ ~ TooLong)

\* A string under minlen that fails the regex gets the regex error
C27_ShortStringGetsRegexError ==
    /\ Validated
    /\ req.op = "string.validate"
    /\ ~ WronglyTyped
    /\ ~ TooLong
    /\ TooShort
    /\ RegexMismatch
    /\ Returned
    /\ outcome.val.t = "Error"

====
